---- MODULE Spec2Model ----
(***************************************************************************)
(* A model of the regen expression-tree builder (package regen).           *)
(*                                                                         *)
(* Text is modelled as Go models it: a string is a sequence of BYTES.  An  *)
(* ASCII byte is written as the one-character string holding it ("(", "a") *)
(* and a byte >= 0x80 as the string "x" + its two hex digits ("xE3").  A   *)
(* rune (code point) below U+0080 is written as its one-character string,  *)
(* the others as "U+" + four hex digits; EncodeRune is the UTF-8 encoding  *)
(* strings.Builder.WriteRune performs.  len(s) is Len of the byte          *)
(* sequence, s[0] its first byte.                                          *)
(*                                                                         *)
(* Nodes are records tagged by "kind" with the fields of the Go struct of  *)
(* that name.  A []CharClass slice is a slice header [arr, len, cap] into  *)
(* the variable heap (arr = 0: the nil slice), so that the sharing of      *)
(* backing arrays by the built-in append is part of the model.             *)
(***************************************************************************)
EXTENDS Integers, Sequences, FiniteSets, TLC

VARIABLES
    calls,  \* the calls made so far in a tree-building session
    heap,   \* backing arrays of the []CharClass slices: a sequence of arrays
    pool,   \* class workbench: the nodes obtained so far, each with the text it rendered when obtained
    cur,    \* the node returned by the last call
    op,     \* the name of the last call
    args,   \* the arguments of the last call (receiver first)
    out     \* the text of the last Regexp() call on cur

vars == <<calls, heap, pool, cur, op, args, out>>

----------------------------------------------------------------------------
(* Bounds of the model                                                     *)

MaxChars == 2       \* runes passed to one CharSet call
MaxNodes == 5       \* class nodes obtained in one workbench session
MaxWbArgs == 1      \* classes passed to one Append call of a workbench session
MaxCalls == 4       \* calls of one tree-building session
MaxChildren == 2    \* children passed to one Sequence / OneOf call
MaxUnion == 4       \* classes passed to one Union call
MaxArgs == 2        \* classes passed to one Append call on a fresh class
MaxAppends == 1     \* Append calls of one session on fresh classes
MaxFlagBits == 6    \* low bits of a Flag the model lets the caller set

----------------------------------------------------------------------------
(* Text                                                                    *)

\* The runes the model draws from: ordinary, the two the class body escapes,
\* the two other class metacharacters, and two non-ASCII runes.
Runes == {"a", "c", "\\", "^", "]", "-", "U+00E9", "U+3053"}

\* utf8.EncodeRune, as strings.Builder.WriteRune applies it.
EncodeRune(r) ==
    IF r = "U+3053" THEN <<"xE3", "x81", "x93">>
    ELSE IF r = "U+00E9" THEN <<"xC3", "xA9">>
    ELSE <<r>>

\* A UTF-8 continuation byte (0x80..0xBF).
IsContinuation(b) == b \in {"x81", "x93", "xA9"}

RECURSIVE Flatten(_)
Flatten(ss) == IF ss = <<>> THEN <<>> ELSE Head(ss) \o Flatten(Tail(ss))

\* The bytes of a string constant holding the runes rs.
Str(rs) == Flatten([i \in 1..Len(rs) |-> EncodeRune(rs[i])])

Digits == <<"0", "1", "2", "3", "4", "5", "6", "7", "8", "9">>

\* strconv.Itoa on the counts of the model (all non-negative).
RECURSIVE Itoa(_)
Itoa(n) == IF n < 10 THEN <<Digits[n + 1]>> ELSE Itoa(n \div 10) \o <<Digits[(n % 10) + 1]>>

----------------------------------------------------------------------------
(* Flags                                                                   *)

FlagCaseInsensitive == 1
FlagMultiLine == 2
FlagMatchNewLine == 4
FlagUngreedy == 8

\* f & bit != 0, for bit a power of two.
HasBit(f, bit) == (f \div bit) % 2 = 1

\* The mutant of Flag.String that tests the multi-line bit first.
FlagStringSwapped(f) ==
    (IF HasBit(f, FlagMultiLine) THEN <<"m">> ELSE <<>>)
    \o (IF HasBit(f, FlagCaseInsensitive) THEN <<"i">> ELSE <<>>)
    \o (IF HasBit(f, FlagMatchNewLine) THEN <<"s">> ELSE <<>>)
    \o (IF HasBit(f, FlagUngreedy) THEN <<"U">> ELSE <<>>)

\* Flag.String
FlagString(f) ==
    (IF HasBit(f, FlagCaseInsensitive) THEN <<"i">> ELSE <<>>)
    \o (IF HasBit(f, FlagMultiLine) THEN <<"m">> ELSE <<>>)
    \o (IF HasBit(f, FlagMatchNewLine) THEN <<"s">> ELSE <<>>)
    \o (IF HasBit(f, FlagUngreedy) THEN <<"U">> ELSE <<>>)

----------------------------------------------------------------------------
(* Slices of CharClass and the built-in append                             *)

NilSlice == [arr |-> 0, len |-> 0, cap |-> 0]

\* The zero value of an array slot that no slice has written yet.
NilClass == [kind |-> "nil"]

\* s[0:len(s)]
Elems(h, s) == IF s.len = 0 THEN <<>> ELSE SubSeq(h[s.arr], 1, s.len)

\* The capacity the runtime gives the array a growing append allocates:
\* the needed length if that exceeds twice the old capacity, else twice the
\* old capacity (capacities below 256; an interface value is 16 bytes, so
\* the allocator's size classes round nothing up to 16 elements).
GrowCap(oldCap, need) == IF need > 2 * oldCap THEN need ELSE 2 * oldCap

\* append(s, xs...): writes into the spare capacity of s's backing array when
\* the result fits, and allocates a new array otherwise.
GoAppend(h, s, xs) ==
    LET need == s.len + Len(xs)
    IN  IF need <= s.cap
        THEN [heap |-> IF Len(xs) = 0 THEN h
                       ELSE [h EXCEPT ![s.arr] =
                                [i \in 1..s.cap |->
                                    IF i > s.len /\ i <= need THEN xs[i - s.len] ELSE @[i]]],
              slice |-> [arr |-> s.arr, len |-> need, cap |-> s.cap]]
        ELSE LET newCap == GrowCap(s.cap, need)
                 all == Elems(h, s) \o xs
             IN  [heap |-> Append(h, [i \in 1..newCap |-> IF i <= need THEN all[i] ELSE NilClass]),
                  slice |-> [arr |-> Len(h) + 1, len |-> need, cap |-> newCap]]

----------------------------------------------------------------------------
(* Character classes: constructors                                         *)

\* CharSet(chars...)
CharSet(chars) ==
    [kind |-> "charSet", chars |-> chars, charClasses |-> NilSlice, negated |-> FALSE]

\* CharRange(start, end)
CharRange(start, end) ==
    [kind |-> "charRange", start |-> start, end |-> end, negated |-> FALSE]

\* ASCIICharClass(name)
ASCIICharClass(name) == [kind |-> "asciiCharClass", name |-> name, negated |-> FALSE]

\* UnicodeCharClass(name)
UnicodeCharClass(name) == [kind |-> "unicodeCharClass", name |-> name, negated |-> FALSE]

ClassKinds == {"charSet", "charRange", "asciiCharClass", "unicodeCharClass", "perlCharClass"}

\* The type assertion r.re.(CharClass)
IsCharClass(n) == n.kind \in ClassKinds

----------------------------------------------------------------------------
(* Rendering                                                               *)

\* The mutant of WriteCharSetRune that escapes the backslash alone.
WriteCharSetRuneNoCaret(r) ==
    (IF r = "\\" THEN <<"\\">> ELSE <<>>) \o EncodeRune(r)

\* writeCharSetRune: what it writes to the builder.
WriteCharSetRune(r) ==
    (IF r = "\\" \/ r = "^" THEN <<"\\">> ELSE <<>>) \o EncodeRune(r)

\* charRangeRegexp.charSetRegexp
CharRangeBody(c) ==
    (IF c.negated THEN <<"^">> ELSE <<>>)
    \o WriteCharSetRune(c.start) \o <<"-">> \o WriteCharSetRune(c.end)

\* The mutant of AsciiBody that never writes the marker.
AsciiBodyNoMarker(a) == <<"[", ":">> \o a.name \o <<":", "]">>

\* asciiCharClassRegexp.charSetRegexp
AsciiBody(a) ==
    <<"[", ":">> \o (IF a.negated THEN <<"^">> ELSE <<>>) \o a.name \o <<":", "]">>

\* The mutant of UnicodeRegexp that always writes the braces.
UnicodeRegexpBraces(u) ==
    <<"\\", IF u.negated THEN "P" ELSE "p">> \o <<"{">> \o u.name \o <<"}">>

\* unicodeCharClassRegexp.Regexp
UnicodeRegexp(u) ==
    <<"\\", IF u.negated THEN "P" ELSE "p">>
    \o (IF Len(u.name) > 1 THEN <<"{">> \o u.name \o <<"}">> ELSE u.name)

\* perlCharClass: a backslash and the class letter, upper case when negated.
PerlRegexp(p) ==
    <<"\\", IF p.negated
            THEN (CASE p.name = "d" -> "D" [] p.name = "s" -> "S" [] p.name = "w" -> "W")
            ELSE p.name>>

\* The mutant of QuantSuffix that has no "+" shorthand.
QuantSuffixNoPlus(r) ==
    (IF ~r.hasMax
     THEN IF r.min = 0 THEN <<"*">>
          ELSE <<"{">> \o Itoa(r.min) \o <<",", "}">>
     ELSE IF r.max = 1 /\ r.min = 0 THEN <<"?">>
          ELSE IF r.min = r.max THEN <<"{">> \o Itoa(r.min) \o <<"}">>
          ELSE <<"{">> \o Itoa(r.min) \o <<",">> \o Itoa(r.max) \o <<"}">>)
    \o (IF r.ungreedy THEN <<"?">> ELSE <<>>)

\* The quantifier a repeatedRegexp writes after its child.
QuantSuffix(r) ==
    (IF ~r.hasMax
     THEN IF r.min = 0 THEN <<"*">>
          ELSE IF r.min = 1 THEN <<"+">>
          ELSE <<"{">> \o Itoa(r.min) \o <<",", "}">>
     ELSE IF r.max = 1 /\ r.min = 0 THEN <<"?">>
          ELSE IF r.min = r.max THEN <<"{">> \o Itoa(r.min) \o <<"}">>
          ELSE <<"{">> \o Itoa(r.min) \o <<",">> \o Itoa(r.max) \o <<"}">>)
    \o (IF r.ungreedy THEN <<"?">> ELSE <<>>)

\* requiresParens of repeatedRegexp.Regexp, for the child re with text subRe.
RequiresParens(re, subRe) ==
    ~ \/ re.kind = "group"
      \/ IsCharClass(re)
      \/ Len(subRe) = 1
      \/ (Len(subRe) = 2 /\ subRe[1] = "\\")

\* The flags a groupedRegexp collects in flagsb.
GroupFlags(g) ==
    IF g.setFlags # 0 \/ g.unsetFlags # 0
    THEN (IF g.setFlags # 0 THEN FlagString(g.setFlags) ELSE <<>>)
         \o (IF g.unsetFlags # 0 THEN <<"-">> \o FlagString(g.unsetFlags) ELSE <<>>)
    ELSE <<>>

\* The mutant of GroupPrefix that writes the flags of a capturing group as
\* it writes those of a no-capture group.
GroupPrefixInline(g) ==
    (IF g.name # <<>> THEN <<"?", "P", "<">> \o g.name \o <<">">> ELSE <<>>)
    \o (IF g.noCapture \/ Len(GroupFlags(g)) > 0 THEN <<"?">> \o GroupFlags(g) \o <<":">>
        ELSE <<>>)

\* What a groupedRegexp writes between "(" and its child's text.
GroupPrefix(g) ==
    (IF g.name # <<>> THEN <<"?", "P", "<">> \o g.name \o <<">">> ELSE <<>>)
    \o (IF g.noCapture THEN <<"?">> \o GroupFlags(g) \o <<":">>
        ELSE IF Len(GroupFlags(g)) > 0 THEN <<"(", "?">> \o GroupFlags(g) \o <<")">>
        ELSE <<>>)

\* The mutant of Join that writes the separator after every child.
JoinTrailing(texts, separator) ==
    Flatten([i \in 1..Len(texts) |-> texts[i] \o separator])

\* The loop of multiRegexp.Regexp over the texts of its children.
RECURSIVE Join(_, _)
Join(texts, separator) ==
    IF texts = <<>> THEN <<>>
    ELSE Head(texts) \o (IF Len(texts) > 1 THEN separator ELSE <<>>) \o Join(Tail(texts), separator)

\* What rendering yields when the recursion never returns: the Go runtime
\* ends the program with a stack overflow.
StackOverflow == <<"!stack overflow">>

\* The text of the parts written one after the other, or StackOverflow if
\* writing one of them never returns.
Written(parts) ==
    IF \E i \in 1..Len(parts) : parts[i] = StackOverflow THEN StackOverflow ELSE Flatten(parts)

\* The number of array slots of the heap: no rendering that returns nests
\* deeper than this.
RECURSIVE Slots(_)
Slots(h) == IF h = <<>> THEN 0 ELSE Len(Head(h)) + Slots(Tail(h))

RECURSIVE Regexp(_, _), CharSetRegexpAt(_, _, _)

\* The charSetRegexp method of every CharClass, the text inside the brackets,
\* at nesting depth d below the node being rendered.
CharSetRegexpAt(h, c, d) ==
    CASE c.kind = "charSet" ->
           IF d > Slots(h) THEN StackOverflow
           ELSE Written(<<IF c.negated THEN <<"^">> ELSE <<>>>>
                        \o [i \in 1..Len(c.chars) |-> WriteCharSetRune(c.chars[i])]
                        \o [i \in 1..c.charClasses.len |->
                               CharSetRegexpAt(h, Elems(h, c.charClasses)[i], d + 1)])
      [] c.kind = "charRange" -> CharRangeBody(c)
      [] c.kind = "asciiCharClass" -> AsciiBody(c)
      [] c.kind = "unicodeCharClass" -> UnicodeRegexp(c)
      [] c.kind = "perlCharClass" -> PerlRegexp(c)

CharSetRegexp(h, c) == CharSetRegexpAt(h, c, 0)

\* The Regexp method of every node.
Regexp(h, n) ==
    CASE n.kind = "literal" -> n.re
      [] n.kind = "group" -> Written(<<<<"(">>, GroupPrefix(n), Regexp(h, n.re), <<")">>>>)
      [] n.kind = "repeated" ->
           LET subRe == Regexp(h, n.re)
           IN  Written(<<IF RequiresParens(n.re, subRe) THEN <<"(">> \o subRe \o <<")">> ELSE subRe,
                         QuantSuffix(n)>>)
      [] n.kind = "multi" ->
           LET texts == [i \in 1..Len(n.res) |-> Regexp(h, n.res[i])]
           IN  IF Written(texts) = StackOverflow THEN StackOverflow
               ELSE Join(texts, n.separator)
      [] n.kind \in {"charSet", "charRange", "asciiCharClass"} ->
           Written(<<<<"[">>, CharSetRegexp(h, n), <<"]">>>>)
      [] n.kind = "unicodeCharClass" -> UnicodeRegexp(n)
      [] n.kind = "perlCharClass" -> PerlRegexp(n)

----------------------------------------------------------------------------
(* Character classes: mutators.  A mutator that allocates returns the new  *)
(* heap with the node: [heap, node].                                       *)

\* Negate of every CharClass: the receiver's copy with the flag flipped.
Negate(c) == [c EXCEPT !.negated = ~@]

\* charSetRegexp.Append
CharSetAppend(h, c, classes) ==
    LET r == GoAppend(h, c.charClasses, classes)
    IN  [heap |-> r.heap,
         node |-> [kind |-> "charSet", chars |-> c.chars,
                   charClasses |-> r.slice, negated |-> c.negated]]

\* The mutant of WrapAppend that leaves the receiver out of the new set.
WrapAppendDiscard(h, c, classes) ==
    LET r == GoAppend(h, NilSlice, classes)
    IN  [heap |-> r.heap,
         node |-> [kind |-> "charSet", chars |-> <<>>,
                   charClasses |-> r.slice, negated |-> c.negated]]

\* Append of charRangeRegexp, asciiCharClassRegexp and unicodeCharClassRegexp:
\* append([]CharClass{c}, classes...) on a one-element literal.
WrapAppend(h, c, classes) ==
    LET lit == Append(h, <<c>>)
        r == GoAppend(lit, [arr |-> Len(lit), len |-> 1, cap |-> 1], classes)
    IN  [heap |-> r.heap,
         node |-> [kind |-> "charSet", chars |-> <<>>,
                   charClasses |-> r.slice, negated |-> c.negated]]

\* The Append method of every CharClass the source defines.
ClassAppend(h, c, classes) ==
    IF c.kind = "charSet" THEN CharSetAppend(h, c, classes) ELSE WrapAppend(h, c, classes)

----------------------------------------------------------------------------
(* Literals, groups, repetitions, sequences and alternations               *)

\* Raw(s)
Raw(s) == [kind |-> "literal", re |-> s]

\* The bytes regexp.QuoteMeta escapes.
MetaBytes == {"\\", ".", "+", "*", "?", "(", ")", "|", "[", "]", "{", "}", "^", "$"}

\* regexp.QuoteMeta
QuoteMeta(s) ==
    Flatten([i \in 1..Len(s) |-> IF s[i] \in MetaBytes THEN <<"\\", s[i]>> ELSE <<s[i]>>])

\* String(s)
String(s) == Raw(QuoteMeta(s))

\* groupedRegexp{re: n}
NewGroup(n) ==
    [kind |-> "group", re |-> n, name |-> <<>>, setFlags |-> 0, unsetFlags |-> 0,
     noCapture |-> FALSE]

\* The mutant of Group that wraps a group in another group.
GroupAgain(n) == NewGroup(n)

\* The Group method of every node: a group returns itself.
Group(n) == IF n.kind = "group" THEN n ELSE NewGroup(n)

\* groupedRegexp.Capture
Capture(g) == [g EXCEPT !.noCapture = FALSE, !.name = <<>>]

\* The mutant of CaptureAs that leaves noCapture as it is.
CaptureAsKeepNoCapture(g, name) == [g EXCEPT !.name = name]

\* groupedRegexp.CaptureAs
CaptureAs(g, name) == [g EXCEPT !.noCapture = FALSE, !.name = name]

\* groupedRegexp.NoCapture
NoCapture(g) == [g EXCEPT !.noCapture = TRUE, !.name = <<>>]

\* groupedRegexp.SetFlags
SetFlags(g, flags) == [g EXCEPT !.setFlags = flags]

\* groupedRegexp.UnsetFlags
UnsetFlags(g, flags) == [g EXCEPT !.unsetFlags = flags]

\* The Repeat method of every node: repeatedRegexp{re: n}
Repeat(n) ==
    [kind |-> "repeated", re |-> n, min |-> 0, hasMin |-> FALSE, max |-> 0,
     hasMax |-> FALSE, ungreedy |-> FALSE]

\* repeatedRegexp.Min
Min(r, min) == [r EXCEPT !.min = min, !.hasMin = TRUE]

\* repeatedRegexp.Max
Max(r, max) == [r EXCEPT !.max = max, !.hasMax = TRUE]

\* repeatedRegexp.Exactly
Exactly(r, num) == [r EXCEPT !.min = num, !.hasMin = TRUE, !.max = num, !.hasMax = TRUE]

\* repeatedRegexp.Greedy
Greedy(r) == [r EXCEPT !.ungreedy = FALSE]

\* repeatedRegexp.Ungreedy
Ungreedy(r) == [r EXCEPT !.ungreedy = TRUE]

\* The Optional method of every node: repeatedRegexp{re: n}.Min(0).Max(1)
Optional(n) == Max(Min(Repeat(n), 0), 1)

\* Sequence(subseqs...)
Sequence(subseqs) == [kind |-> "multi", res |-> subseqs, separator |-> <<>>]

\* The mutant of OneOf that takes the choices last to first.
OneOfReversed(choices) ==
    NewGroup([kind |-> "multi",
              res |-> [i \in 1..Len(choices) |-> choices[Len(choices) + 1 - i]],
              separator |-> <<"|">>])

\* OneOf(choices...)
OneOf(choices) == NewGroup([kind |-> "multi", res |-> choices, separator |-> <<"|">>])

----------------------------------------------------------------------------
(* The class workbench: a caller that constructs classes, negates them and *)
(* appends them to each other, keeping every node it obtained.             *)

None == [kind |-> "none"]

\* The inputs the workbench passes to the constructors.
WbCharSets == {<<"a">>}
WbNames == {<<"Z">>}

\* The caller obtains node n (with the heap now h) from call o on as, and renders it.
Obtain(h, n, o, as) ==
    /\ Cardinality(pool) < MaxNodes
    /\ heap' = h
    /\ cur' = n
    /\ op' = o
    /\ args' = as
    /\ out' = Regexp(h, n)
    /\ pool' = pool \cup {[node |-> n, text |-> Regexp(h, n)]}
    /\ UNCHANGED calls

WbCharSet(chars) == Obtain(heap, CharSet(chars), "CharSet", <<>>)

WbCharRange(start, end) == Obtain(heap, CharRange(start, end), "CharRange", <<>>)

WbUnicodeCharClass(name) == Obtain(heap, UnicodeCharClass(name), "UnicodeCharClass", <<>>)

WbNegate(c) == Obtain(heap, Negate(c), "Negate", <<c>>)

WbAppend(c, classes) ==
    LET r == ClassAppend(heap, c, classes)
    IN  Obtain(r.heap, r.node, "Append", <<c>> \o classes)

PoolNodes == {e.node : e \in pool}

\* The argument lists of at most n nodes of S.
Lists(S, n) == UNION {[1..k -> S] : k \in 0..n}

Init ==
    /\ calls = 0
    /\ heap = <<>>
    /\ pool = {}
    /\ cur = None
    /\ op = "none"
    /\ args = <<>>
    /\ out = <<>>

Next ==
    \/ \E chars \in WbCharSets : WbCharSet(chars)
    \/ WbCharRange("a", "c")
    \/ \E name \in WbNames : WbUnicodeCharClass(name)
    \/ \E c \in PoolNodes : WbNegate(c)
    \/ \E c \in PoolNodes : \E classes \in Lists(PoolNodes, MaxWbArgs) : WbAppend(c, classes)

Spec == Init /\ [][Next]_vars

----------------------------------------------------------------------------
(* The primitive classes: a caller that constructs one class from inputs   *)
(* of its choice, negates it any number of times and renders it.           *)

\* The caller gets node n (with the heap now h) from call o on as, and renders it.
Call(h, n, o, as) ==
    /\ heap' = h
    /\ cur' = n
    /\ op' = o
    /\ args' = as
    /\ out' = Regexp(h, n)
    /\ UNCHANGED <<pool, calls>>

\* The class names the model draws from: empty, one ASCII letter, two
\* letters, and one non-ASCII letter.
Names == {<<>>, <<"Z">>, <<"G", "r">>, Str(<<"U+00E9">>)}

PrimCharSet(chars) == Call(heap, CharSet(chars), "CharSet", <<>>)

PrimCharRange(start, end) == Call(heap, CharRange(start, end), "CharRange", <<>>)

PrimASCIICharClass(name) == Call(heap, ASCIICharClass(name), "ASCIICharClass", <<>>)

PrimUnicodeCharClass(name) == Call(heap, UnicodeCharClass(name), "UnicodeCharClass", <<>>)

PrimNegate == IsCharClass(cur) /\ Call(heap, Negate(cur), "Negate", <<cur>>)

NextPrim ==
    \/ \E chars \in Lists(Runes, MaxChars) : PrimCharSet(chars)
    \/ \E start \in Runes : \E end \in Runes : PrimCharRange(start, end)
    \/ \E name \in Names : PrimASCIICharClass(name)
    \/ \E name \in Names : PrimUnicodeCharClass(name)
    \/ PrimNegate

SpecPrim == Init /\ [][NextPrim]_vars

----------------------------------------------------------------------------
(* The tree builder: a caller that makes a first node and builds a tree    *)
(* around it call by call, rendering each node it gets.  op gives the      *)
(* static type of cur: the mutators of GroupedRegexp can be called on the  *)
(* result of Group and of those mutators, the mutators of RepeatedRegexp   *)
(* on the result of Repeat and of those mutators.                          *)

\* The texts the caller passes to Raw: one byte, an escaped byte, two bytes,
\* one three-byte character, and the empty text.
RawTexts == {<<"h">>, <<"\\", "w">>, <<"h", "i">>, Str(<<"U+3053">>), <<>>}

\* The texts the caller passes to String.
StringTexts == {<<".">>}

\* The node the caller passes to Sequence and OneOf beside cur.
Sibling == Raw(<<"h", "i">>)

\* The counts the caller passes to Min, Max and Exactly.
Counts == {0, 1, 10}

\* The flags the caller passes to SetFlags and UnsetFlags: two flags, and a
\* bit that is no flag.
FlagInputs == {FlagCaseInsensitive + FlagMultiLine, 2 * FlagUngreedy}

\* The names the caller passes to CaptureAs.
GroupNames == {<<"n">>}

HasNode == cur.kind # "none"

IsGrouped == op \in {"Group", "Capture", "CaptureAs", "NoCapture", "SetFlags", "UnsetFlags"}

IsRepeated == op \in {"Repeat", "Min", "Max", "Exactly", "Greedy", "Ungreedy"}

\* The caller gets node n from call o on as (receiver first) and renders it.
Build(n, o, as) ==
    /\ calls < MaxCalls
    /\ calls' = calls + 1
    /\ cur' = n
    /\ op' = o
    /\ args' = as
    /\ out' = Regexp(heap, n)
    /\ UNCHANGED <<heap, pool>>

TreeRaw(s) == ~HasNode /\ Build(Raw(s), "Raw", <<>>)

TreeString(s) == ~HasNode /\ Build(String(s), "String", <<>>)

TreeCharSet(chars) == ~HasNode /\ Build(CharSet(chars), "CharSet", <<>>)

TreeGroup == HasNode /\ Build(Group(cur), "Group", <<cur>>)

TreeCapture == IsGrouped /\ Build(Capture(cur), "Capture", <<cur>>)

TreeCaptureAs(name) == IsGrouped /\ Build(CaptureAs(cur, name), "CaptureAs", <<cur>>)

TreeNoCapture == IsGrouped /\ Build(NoCapture(cur), "NoCapture", <<cur>>)

TreeSetFlags(flags) == IsGrouped /\ Build(SetFlags(cur, flags), "SetFlags", <<cur>>)

TreeUnsetFlags(flags) == IsGrouped /\ Build(UnsetFlags(cur, flags), "UnsetFlags", <<cur>>)

TreeRepeat == HasNode /\ Build(Repeat(cur), "Repeat", <<cur>>)

TreeOptional == HasNode /\ Build(Optional(cur), "Optional", <<cur>>)

TreeMin(min) == IsRepeated /\ Build(Min(cur, min), "Min", <<cur>>)

TreeMax(max) == IsRepeated /\ Build(Max(cur, max), "Max", <<cur>>)

TreeExactly(num) == IsRepeated /\ Build(Exactly(cur, num), "Exactly", <<cur>>)

TreeGreedy == IsRepeated /\ Build(Greedy(cur), "Greedy", <<cur>>)

TreeUngreedy == IsRepeated /\ Build(Ungreedy(cur), "Ungreedy", <<cur>>)

TreeSequence(subseqs) == Build(Sequence(subseqs), "Sequence", subseqs)

TreeOneOf(choices) == Build(OneOf(choices), "OneOf", choices)

\* The lists the caller passes to Sequence and OneOf: at the start of a
\* session fresh siblings alone, later cur among fresh siblings.
ChildLists ==
    IF HasNode
    THEN UNION {{[i \in 1..k |-> IF i = j THEN cur ELSE Sibling] : j \in 1..k} :
                   k \in 1..MaxChildren}
    ELSE {[i \in 1..k |-> Sibling] : k \in 0..MaxChildren}

NextTree ==
    \/ \E s \in RawTexts : TreeRaw(s)
    \/ \E s \in StringTexts : TreeString(s)
    \/ TreeCharSet(<<"a">>)
    \/ TreeGroup
    \/ TreeCapture
    \/ \E name \in GroupNames : TreeCaptureAs(name)
    \/ TreeNoCapture
    \/ \E flags \in FlagInputs : TreeSetFlags(flags)
    \/ \E flags \in FlagInputs : TreeUnsetFlags(flags)
    \/ TreeRepeat
    \/ TreeOptional
    \/ \E n \in Counts : TreeMin(n)
    \/ \E n \in Counts : TreeMax(n)
    \/ \E n \in Counts : TreeExactly(n)
    \/ TreeGreedy
    \/ TreeUngreedy
    \/ \E subseqs \in ChildLists : TreeSequence(subseqs)
    \/ \E choices \in ChildLists : TreeOneOf(choices)

SpecTree == Init /\ [][NextTree]_vars

----------------------------------------------------------------------------
(* Union.  Its code is in none of the source files at hand (they hold the  *)
(* variant of the package that has Append instead); it is modelled on      *)
(* section 4.1 of the specification and on the Union cases of TestRegen.   *)

\* perlCharClass(letter): Digit, Whitespace and WordCharacter
PerlCharClass(letter) == [kind |-> "perlCharClass", name |-> letter, negated |-> FALSE]

IsRaw(c) == c.kind \in {"charSet", "charRange"}

IsNamed(c) == c.kind \in {"asciiCharClass", "unicodeCharClass", "perlCharClass"}

\* The bracket of polarity negated that Union makes of classes: the sets and
\* ranges of that polarity, in order and with their own negation absorbed by
\* the bracket, then the named classes it hosts (all of them, or those of
\* that polarity), in order and negated locally iff their polarity is not
\* the bracket's.
UnionBranch(h, classes, negated, all) ==
    LET raws == SelectSeq(classes, LAMBDA c : IsRaw(c) /\ c.negated = negated)
        named == SelectSeq(classes, LAMBDA c : IsNamed(c) /\ (all \/ c.negated = negated))
        members == [i \in 1..Len(raws) |-> [raws[i] EXCEPT !.negated = FALSE]]
                   \o [i \in 1..Len(named) |-> [named[i] EXCEPT !.negated = (@ # negated)]]
        r == GoAppend(h, NilSlice, members)
    IN  [heap |-> r.heap,
         node |-> [kind |-> "charSet", chars |-> <<>>, charClasses |-> r.slice,
                   negated |-> negated]]

\* Union(classes...): one bracket when the sets and ranges share one
\* polarity, else the alternation of the non-negated and the negated
\* bracket.  Without any set or range the bracket is not negated if no class
\* is; otherwise the specification does not say, and default decides.
Union(h, classes, default) ==
    LET hasNegated == \E i \in 1..Len(classes) : IsRaw(classes[i]) /\ classes[i].negated
        hasPlain == \E i \in 1..Len(classes) : IsRaw(classes[i]) /\ ~classes[i].negated
    IN  IF hasNegated /\ hasPlain
        THEN LET plain == UnionBranch(h, classes, FALSE, FALSE)
                 negated == UnionBranch(plain.heap, classes, TRUE, FALSE)
             IN  [heap |-> negated.heap, node |-> OneOf(<<plain.node, negated.node>>)]
        ELSE UnionBranch(h, classes,
                         IF hasNegated THEN TRUE
                         ELSE IF hasPlain THEN FALSE
                         ELSE default /\ \E i \in 1..Len(classes) : classes[i].negated,
                         TRUE)

\* The classes the caller passes to Union, each negated or not.
UnionClasses ==
    LET plain == {CharSet(<<"v">>), CharRange("a", "c"), ASCIICharClass(<<"a", "l">>),
                  UnicodeCharClass(<<"G", "r">>), PerlCharClass("s")}
    IN  plain \cup {Negate(c) : c \in plain}

\* The lists that hold no class twice, negated or not.
UnionLists ==
    {cs \in Lists(UnionClasses, MaxUnion) :
        \A i, j \in 1..Len(cs) : i # j => [cs[i] EXCEPT !.negated = FALSE] # [cs[j] EXCEPT !.negated = FALSE]}

UnionCall(classes, default) ==
    LET r == Union(heap, classes, default)
    IN  op = "none" /\ Call(r.heap, r.node, "Union", classes)

NextUnion == \E classes \in UnionLists : \E default \in BOOLEAN : UnionCall(classes, default)

SpecUnion == Init /\ [][NextUnion]_vars

----------------------------------------------------------------------------
(* Append on fresh classes: a caller that constructs a class of any kind,  *)
(* negates it or not, appends freshly constructed classes to it and        *)
(* renders the result.                                                     *)

\* The rune lists the caller passes to CharSet before Append.
ApCharSets == {<<>>, <<"a">>, <<"^", "]">>}

\* The names the caller passes to ASCIICharClass and UnicodeCharClass.
ApNames == {<<"Z">>, <<"G", "r">>}

\* The classes the caller passes to Append.
AppendClasses == {CharRange("a", "c"), CharSet(<<"-">>), Negate(ASCIICharClass(<<"Z">>))}

ApAppend(classes) ==
    LET r == ClassAppend(heap, cur, classes)
    IN  /\ IsCharClass(cur)
        /\ calls < MaxAppends
        /\ calls' = calls + 1
        /\ heap' = r.heap
        /\ cur' = r.node
        /\ op' = "Append"
        /\ args' = <<cur>> \o classes
        /\ out' = Regexp(r.heap, r.node)
        /\ UNCHANGED pool

\* The receiver is constructed before the first Append.
NextAppend ==
    \/ calls = 0 /\ \E chars \in ApCharSets : PrimCharSet(chars)
    \/ calls = 0 /\ PrimCharRange("a", "c")
    \/ calls = 0 /\ \E name \in ApNames : PrimASCIICharClass(name)
    \/ calls = 0 /\ \E name \in ApNames : PrimUnicodeCharClass(name)
    \/ PrimNegate
    \/ \E classes \in Lists(AppendClasses, MaxArgs) : ApAppend(classes)

SpecAppend == Init /\ [][NextAppend]_vars

----------------------------------------------------------------------------
(* Flags: a caller that takes a Flag value, ORs further values into it and *)
(* calls String() on each result.                                          *)

\* The Flag values of the model: every bitset of the MaxFlagBits low bits,
\* the four flags and bits that are no flag.
FlagValues == 0..(2 ^ MaxFlagBits - 1)

\* a | b on unsigned integers
RECURSIVE BitOr(_, _)
BitOr(a, b) ==
    IF a = 0 THEN b
    ELSE IF b = 0 THEN a
    ELSE 2 * BitOr(a \div 2, b \div 2) + (IF a % 2 = 1 \/ b % 2 = 1 THEN 1 ELSE 0)

\* The caller has Flag value f and calls String() on it.
FlagCall(f, o, as) ==
    /\ cur' = [kind |-> "flag", bits |-> f]
    /\ op' = o
    /\ args' = as
    /\ out' = FlagString(f)
    /\ UNCHANGED <<heap, pool, calls>>

\* Flag(f)
FlagOf(f) == FlagCall(f, "Flag", <<>>)

\* cur | g
FlagOr(g) == cur.kind = "flag" /\ FlagCall(BitOr(cur.bits, g), "Or", <<cur.bits, g>>)

NextFlags ==
    \/ \E f \in FlagValues : FlagOf(f)
    \/ \E g \in FlagValues : FlagOr(g)

SpecFlags == Init /\ [][NextFlags]_vars

----------------------------------------------------------------------------
(* Claims                                                                  *)

\* C1: every node the caller obtained still renders the text it rendered
\* when it was obtained, whatever calls followed.
C1_CopyOnWrite == \A e \in pool : Regexp(heap, e.node) = e.text



\* utf8.RuneCount: the characters (code points) a text holds.
RuneCount(text) == Cardinality({i \in 1..Len(text) : ~IsContinuation(text[i])})

\* The leading "^" of a negated class body.
Marker(c) == IF c.negated THEN <<"^">> ELSE <<>>

\* What C9 says a member or boundary r of a class body is rendered as.
ClaimedMember(r) ==
    IF r \in {"\\", "^"} THEN <<"\\">> \o EncodeRune(r) ELSE EncodeRune(r)

\* C9: in a class body every literal member of an ExplicitSet and every
\* boundary of a Range is written as a backslash and the code point if it is
\* a backslash or a caret and as the code point alone otherwise ("]" and "-"
\* included), the members in the order given.
C9_ClassBodyEscaping ==
    /\ cur.kind = "charSet" =>
         out = <<"[">> \o Marker(cur)
               \o Flatten([i \in 1..Len(cur.chars) |-> ClaimedMember(cur.chars[i])])
               \o <<"]">>
    /\ cur.kind = "charRange" =>
         out = <<"[">> \o Marker(cur)
               \o ClaimedMember(cur.start) \o <<"-">> \o ClaimedMember(cur.end)
               \o <<"]">>

\* A set holding an escaped and an unescaped metacharacter has been rendered.
C9_Witness ==
    /\ op = "CharSet"
    /\ cur.chars = <<"^", "]">>
    /\ out = <<"[", "\\", "^", "]", "]">>

\* The text of class c with its negation form taken out.
Unmarked(text, c) ==
    CASE c.kind \in {"charSet", "charRange"} ->
           IF c.negated THEN <<"[">> \o SubSeq(text, 3, Len(text)) ELSE text
      [] c.kind = "asciiCharClass" ->
           IF c.negated THEN SubSeq(text, 1, 3) \o SubSeq(text, 5, Len(text)) ELSE text
      [] c.kind = "unicodeCharClass" -> <<"\\", "p">> \o SubSeq(text, 3, Len(text))

\* The clauses of C10 on the bracketed classes and on Negate.
C10_Bracketed ==
    /\ cur.kind \in {"charSet", "charRange"} =>
         /\ Head(out) = "["
         /\ out[Len(out)] = "]"
         /\ (out[2] = "^") <=> cur.negated
    /\ cur.kind = "asciiCharClass" =>
         out = <<"[", "[", ":">> \o Marker(cur) \o cur.name \o <<":", "]", "]">>
    /\ op = "Negate" =>
         /\ cur.negated # args[1].negated
         /\ Unmarked(out, cur) = Unmarked(Regexp(heap, args[1]), args[1])
         /\ Regexp(heap, [cur EXCEPT !.negated = FALSE]) = Unmarked(out, cur)

\* C10 as stated: each primitive class renders with its own wrapper and
\* negation form, a NamedUnicode class without braces exactly when its name
\* is a single character, and Negate toggles the negation form alone.
C10_AsStated ==
    /\ C10_Bracketed
    /\ cur.kind = "unicodeCharClass" =>
         out = <<"\\", IF cur.negated THEN "P" ELSE "p">>
               \o (IF RuneCount(cur.name) = 1 THEN cur.name
                   ELSE <<"{">> \o cur.name \o <<"}">>)

\* C10, amended: as stated, but a NamedUnicode class is written without
\* braces exactly when its name is at most one byte long (the empty name or
\* a single ASCII character).
C10_PrimitiveForms ==
    /\ C10_Bracketed
    /\ cur.kind = "unicodeCharClass" =>
         out = <<"\\", IF cur.negated THEN "P" ELSE "p">>
               \o (IF Len(cur.name) <= 1 THEN cur.name
                   ELSE <<"{">> \o cur.name \o <<"}">>)

\* A one-letter NamedUnicode class has been negated and rendered.
C10_Witness ==
    /\ op = "Negate"
    /\ cur.kind = "unicodeCharClass"
    /\ cur.name = <<"Z">>
    /\ out = <<"\\", "P", "Z">>


\* C4: a Repetition puts its child's text in parentheses exactly when the
\* child is no Group and no CharClass and its text is neither one character
\* nor a backslash and one more character.
C4_RepeatParens ==
    cur.kind = "repeated" =>
        LET text == Regexp(heap, cur.re)
            bare == \/ cur.re.kind = "group"
                    \/ IsCharClass(cur.re)
                    \/ RuneCount(text) = 1
                    \/ (RuneCount(text) = 2 /\ text[1] = "\\")
        IN  out = (IF bare THEN text ELSE <<"(">> \o text \o <<")">>) \o QuantSuffix(cur)

\* What C5 says the quantifier of a Repetition is.
ClaimedQuant(hasMax, min, max, ungreedy) ==
    (CASE ~hasMax /\ min = 0 -> <<"*">>
       [] ~hasMax /\ min = 1 -> <<"+">>
       [] ~hasMax /\ min > 1 -> <<"{">> \o Itoa(min) \o <<",", "}">>
       [] hasMax /\ min = 0 /\ max = 1 -> <<"?">>
       [] hasMax /\ min = max -> <<"{">> \o Itoa(min) \o <<"}">>
       [] OTHER -> <<"{">> \o Itoa(min) \o <<",">> \o Itoa(max) \o <<"}">>)
    \o (IF ungreedy THEN <<"?">> ELSE <<>>)

FlagLetters == <<"i", "m", "s", "U">>

\* The canonical string of a flag set: its letters in the order i, m, s, U.
Canonical(f) == Flatten([k \in 1..4 |-> IF HasBit(f, 2 ^ (k - 1)) THEN <<FlagLetters[k]>> ELSE <<>>])

\* The flags-segment of C6.
Segment(g) ==
    Canonical(g.setFlags)
    \o (IF g.unsetFlags # 0 THEN <<"-">> \o Canonical(g.unsetFlags) ELSE <<>>)

\* C6: a Group renders as "(", "?P<name>" if it is named, then "?" +
\* flags-segment + ":" if it is no-capture and else "(?" + flags-segment +
\* ")" if the segment is not empty, then its child's text, then ")".
C6_GroupRendering ==
    cur.kind = "group" =>
        out = <<"(">>
              \o (IF cur.name # <<>> THEN <<"?", "P", "<">> \o cur.name \o <<">">> ELSE <<>>)
              \o (IF cur.noCapture THEN <<"?">> \o Segment(cur) \o <<":">>
                  ELSE IF Segment(cur) # <<>> THEN <<"(", "?">> \o Segment(cur) \o <<")">>
                  ELSE <<>>)
              \o Regexp(heap, cur.re)
              \o <<")">>

\* Flags have been set on a named capturing group.
C6_Witness ==
    /\ op = "SetFlags"
    /\ out = <<"(", "?", "P", "<", "n", ">", "(", "?", "i", "m", ")", "h", ")">>

\* C7: no Group is both named and no-capture: CaptureAs makes it capturing,
\* Capture and NoCapture clear the name, SetFlags and UnsetFlags change
\* neither, and no rendered group has "?" after its "?P<name>".
C7_NamedOrNoCapture ==
    cur.kind = "group" =>
        /\ ~(cur.name # <<>> /\ cur.noCapture)
        /\ op = "CaptureAs" => ~cur.noCapture
        /\ op = "Capture" => cur.name = <<>> /\ ~cur.noCapture
        /\ op = "NoCapture" => cur.name = <<>> /\ cur.noCapture
        /\ op \in {"SetFlags", "UnsetFlags"} =>
             cur.name = args[1].name /\ cur.noCapture = args[1].noCapture
        /\ cur.name # <<>> =>
             /\ SubSeq(out, 1, 5 + Len(cur.name)) = <<"(", "?", "P", "<">> \o cur.name \o <<">">>
             /\ out[6 + Len(cur.name)] # "?"

\* CaptureAs has been called on a no-capture group.
C7_Witness ==
    /\ op = "CaptureAs"
    /\ args[1].noCapture
    /\ cur.name = <<"n">>

\* The occurrences of byte b in text.
Count(text, b) == Cardinality({i \in 1..Len(text) : text[i] = b})

RECURSIVE Sum(_)
Sum(ns) == IF ns = <<>> THEN 0 ELSE Head(ns) + Sum(Tail(ns))

\* C8: Sequence renders its children's texts one after the other; OneOf
\* renders "(" + the texts with "|" between consecutive ones + ")", so with
\* n - 1 separators for n >= 1 children and as "()" for none, and its group
\* is capturing, unnamed and without flags.
C8_SequenceAndOneOf ==
    LET texts == [i \in 1..Len(args) |-> Regexp(heap, args[i])]
        n == Len(args)
        between == [i \in 1..n |-> IF i < n THEN texts[i] \o <<"|">> ELSE texts[i]]
    IN  /\ op = "Sequence" => out = Flatten(texts)
        /\ op = "OneOf" =>
             /\ out = <<"(">> \o Flatten(between) \o <<")">>
             /\ Count(out, "|") = Sum([i \in 1..n |-> Count(texts[i], "|")])
                                  + (IF n >= 1 THEN n - 1 ELSE 0)
             /\ n = 0 => out = <<"(", ")">>
             /\ cur.kind = "group"
             /\ cur.name = <<>> /\ ~cur.noCapture
             /\ cur.setFlags = 0 /\ cur.unsetFlags = 0

\* OneOf has been called on two children.
C8_Witness ==
    /\ op = "OneOf"
    /\ out = <<"(", "h", "|", "h", "i", ")">>


\* text holds sub as a substring.
Contains(text, sub) ==
    \E i \in 1..(Len(text) - Len(sub) + 1) : SubSeq(text, i, i + Len(sub) - 1) = sub

\* The bracket expressions of the text of a Union: the text itself, or the
\* two sides of the "|" between its parentheses.
Brackets(text) ==
    IF text # <<>> /\ Head(text) = "("
    THEN LET bar == CHOOSE i \in 1..Len(text) : text[i] = "|"
         IN  <<SubSeq(text, 2, bar - 1), SubSeq(text, bar + 1, Len(text) - 1)>>
    ELSE <<text>>

\* A bracket expression, and its polarity.
IsBracket(b) == Len(b) >= 2 /\ Head(b) = "[" /\ b[Len(b)] = "]"
IsNegatedBracket(b) == b[2] = "^"

\* The text of a set or range in a bracket of its polarity.
RawText(c) == IF c.kind = "charSet" THEN c.chars ELSE <<c.start, "-", c.end>>

\* The text of a named class without and with its own negation marker.
NamedText(c, marked) ==
    CASE c.kind = "asciiCharClass" ->
           <<"[", ":">> \o (IF marked THEN <<"^">> ELSE <<>>) \o c.name \o <<":", "]">>
      [] c.kind = "unicodeCharClass" ->
           <<"\\", IF marked THEN "P" ELSE "p", "{">> \o c.name \o <<"}">>
      [] c.kind = "perlCharClass" -> <<"\\", IF marked THEN "S" ELSE "s">>

\* out is the alternation of a non-negated and a negated bracket, in this
\* order, each holding the sets and ranges of its polarity and no other.
TwoBrackets ==
    /\ Head(out) = "(" /\ out[Len(out)] = ")"
    /\ Count(out, "|") = 1
    /\ LET bs == Brackets(out)
       IN  /\ IsBracket(bs[1]) /\ ~IsNegatedBracket(bs[1])
           /\ IsBracket(bs[2]) /\ IsNegatedBracket(bs[2])
           /\ \A i \in 1..Len(args) :
                IsRaw(args[i]) =>
                    /\ Contains(bs[IF args[i].negated THEN 2 ELSE 1], RawText(args[i]))
                    /\ ~Contains(bs[IF args[i].negated THEN 1 ELSE 2], RawText(args[i]))

C3_NamedClassPolarity ==
    op = "Union" =>
        LET bs == Brackets(out)
            Hosts(b, c) == Contains(b, NamedText(c, TRUE)) \/ Contains(b, NamedText(c, FALSE))
        IN  \A i \in 1..Len(args) :
                IsNamed(args[i]) =>
                    /\ Cardinality({k \in 1..Len(bs) : Hosts(bs[k], args[i])}) = 1
                    /\ \A k \in 1..Len(bs) :
                         Hosts(bs[k], args[i]) =>
                            /\ Contains(bs[k], NamedText(args[i], TRUE))
                               <=> (args[i].negated # IsNegatedBracket(bs[k]))
                            /\ Len(bs) = 2 => (args[i].negated <=> IsNegatedBracket(bs[k]))

\* Union has distributed a negated and a non-negated named class over two
\* brackets.
C3_Witness ==
    /\ op = "Union"
    /\ args = <<CharSet(<<"v">>), Negate(ASCIICharClass(<<"a", "l">>)),
                UnicodeCharClass(<<"G", "r">>), Negate(CharRange("a", "c"))>>
    /\ out = <<"(", "[", "v", "\\", "p", "{", "G", "r", "}", "]", "|",
               "[", "^", "a", "-", "c", "[", ":", "a", "l", ":", "]", "]", ")">>


\* C11 as stated: Append on a range, ASCII class or Unicode class returns a
\* new set that holds only the classes passed to Append; the receiver is not
\* among its members.
C11_AsStated ==
    (op = "Append" /\ args[1].kind # "charSet") =>
        /\ cur.kind = "charSet"
        /\ Elems(heap, cur.charClasses) = Tail(args)

\* C11, amended: Append on a range, ASCII class or Unicode class returns a
\* new set without characters of its own whose members are the receiver,
\* first, and then the classes passed to Append, in order.
C11_WrapsReceiver ==
    (op = "Append" /\ args[1].kind # "charSet") =>
        /\ cur.kind = "charSet"
        /\ cur.chars = <<>>
        /\ Elems(heap, cur.charClasses) = args

\* Append has been called on a range with two classes.
C11_Witness ==
    /\ op = "Append"
    /\ args = <<CharRange("a", "c"), CharSet(<<"-">>), Negate(ASCIICharClass(<<"Z">>))>>
    /\ out = <<"[", "a", "-", "c", "-", "[", ":", "^", "Z", ":", "]", "]">>

\* C17: the text of c.Negate().Append(cs...) is the text of c.Append(cs...)
\* with one negation marker after the opening bracket, for a receiver c of
\* every kind; the receiver's negation is not written twice.
C17_NegationOnce ==
    (op = "Append" /\ args[1].negated) =>
        LET plain == ClassAppend(heap, Negate(args[1]), Tail(args))
        IN  out = <<"[", "^">> \o Tail(Regexp(plain.heap, plain.node))


\* C12: r.Append(c1..cn) on a non-negated receiver r of any kind renders as
\* "[" + body(r) + body(c1) + ... + body(cn) + "]", the bodies being those
\* the receiver and the classes have when Append is called.
C12_AppendBodies ==
    [][(op' = "Append" /\ ~args'[1].negated) =>
          out' = <<"[">>
                 \o Flatten([i \in 1..Len(args') |-> CharSetRegexp(heap, args'[i])])
                 \o <<"]">>]_vars


\* C14: rendering a tree twice gives the same text, whatever calls on other
\* nodes lie between the two renderings: no call changes the text of a node
\* the caller already holds.
C14_RenderStable ==
    [][\A e \in pool : Regexp(heap', e.node) = Regexp(heap, e.node)]_vars


\* The number a text of decimal digits denotes.
RECURSIVE Atoi(_)
Atoi(ds) ==
    IF ds = <<>> THEN 0
    ELSE 10 * Atoi(SubSeq(ds, 1, Len(ds) - 1))
         + (CHOOSE d \in 0..9 : Digits[d + 1] = ds[Len(ds)])

IsNumber(ds) == ds # <<>> /\ \A i \in 1..Len(ds) : \E d \in 1..10 : Digits[d] = ds[i]

\* What regexp.Compile rejects with "invalid repeat count": an unescaped
\* {min,max} after an operand where min is greater than max.
InvalidRepeatSize(text) ==
    \E i, j, k \in 2..Len(text) :
        /\ i < j /\ j < k
        /\ text[i] = "{" /\ text[i - 1] # "\\" /\ text[j] = "," /\ text[k] = "}"
        /\ IsNumber(SubSeq(text, i + 1, j - 1))
        /\ IsNumber(SubSeq(text, j + 1, k - 1))
        /\ Atoi(SubSeq(text, i + 1, j - 1)) > Atoi(SubSeq(text, j + 1, k - 1))

\* C13: every text the caller gets from Regexp() compiles; in particular it
\* holds no repetition that regexp.Compile rejects for its counts.
C13_Compiles == HasNode => ~InvalidRepeatSize(out)


\* Bit number k (from 0) of f is set.
BitSet(f, k) == f % (2 ^ (k + 1)) >= 2 ^ k

\* C15: f.String() holds the letters i, m, s, U exactly for the bits 0, 1,
\* 2, 3 that are set in f, each once and in this order, and nothing else,
\* whatever the order in which f was OR-ed together.
C15_FlagString ==
    cur.kind = "flag" =>
        /\ \A k \in 1..4 : Count(out, FlagLetters[k]) = (IF BitSet(cur.bits, k - 1) THEN 1 ELSE 0)
        /\ \A i \in 1..Len(out) : \E k \in 1..4 : out[i] = FlagLetters[k]
        /\ \A i, j \in 1..Len(out) :
             i < j => \E k, l \in 1..4 : k < l /\ out[i] = FlagLetters[k] /\ out[j] = FlagLetters[l]
        /\ op = "Or" => out = FlagString(BitOr(args[2], args[1]))

\* The ungreedy flag, a bit that is no flag and the case-insensitive flag
\* have been OR-ed in this order.
C15_Witness ==
    /\ op = "Or"
    /\ args = <<FlagUngreedy + 16, FlagCaseInsensitive>>
    /\ out = <<"i", "U">>


\* C16: Group() on a group returns that group, with its child, name,
\* no-capture state and flags, and the same text; on any other node it
\* returns a capturing group without name and flags around the node, whose
\* text is "(" + the node's text + ")".
C16_GroupOnce ==
    op = "Group" =>
        IF args[1].kind = "group"
        THEN cur = args[1] /\ out = Regexp(heap, args[1])
        ELSE /\ cur.kind = "group" /\ cur.re = args[1]
             /\ cur.name = <<>> /\ ~cur.noCapture
             /\ cur.setFlags = 0 /\ cur.unsetFlags = 0
             /\ out = <<"(">> \o Regexp(heap, args[1]) \o <<")">>

\* Group() has been called on a named group.
C16_Witness ==
    /\ op = "Group"
    /\ args[1].kind = "group"
    /\ args[1].name = <<"n">>
    /\ out = <<"(", "?", "P", "<", "n", ">", "h", ")">>

====
